---- MODULE Spec2Model ----
(***************************************************************************)
(* createSchema of src/graphQL/createSchema.js as a state machine.         *)
(*                                                                         *)
(* One run of createSchema: the seeding of the registry (typeSets) from    *)
(* commonTypes, the forEach over dbMetadata (pass 1), the map over the     *)
(* registry that attaches inputObject and mutation (pass 2), and the root  *)
(* assembly that returns the schema.  GraphQL types are values: scalars,   *)
(* object types (with an identity, oid), connection types, input objects   *)
(* and the NonNull / List wrappers.  The lazily evaluated field map of a   *)
(* GraphQLObjectType is the variable fieldsOf.                             *)
(*                                                                         *)
(* Spec       a whole run of createSchema on a bounded input.              *)
(* SpecInput  createInputObject alone, applied to an object type with one  *)
(*            field besides id, of any bounded wrapper nesting.            *)
(***************************************************************************)
EXTENDS Naturals, Sequences, FiniteSets, TLC

VARIABLES
    commonTypes,   \* createSchema's commonTypes: the names of the built-in types
    dbMetadata,    \* createSchema's dbMetadata: a sequence of type metadata
    pc,            \* where createSchema is: seed, pass1, pass2, done, error, call, ret
    err,           \* the error createSchema threw, "none" while it has not
    i,             \* index of the forEach over dbMetadata
    typeSets,      \* `let typeSets`: name -> TypeSet
    mapped,        \* the result of typeSets.map(...) under construction (pass 2)
    fieldsOf,      \* oid -> the evaluated field map of a custom object type
    lookups,       \* history: every getTypeSet call, with the registry keys it saw
    started,       \* history: every createInputObject / createMutation call
    arg,           \* SpecInput: the object type handed to createInputObject
    ret            \* SpecInput: what createInputObject returned

vars == <<commonTypes, dbMetadata, pc, err, i, typeSets, mapped, fieldsOf,
          lookups, started, arg, ret>>

-----------------------------------------------------------------------------
(* Bounds *)

\* longest dbMetadata list
MaxTypes == 2
\* deepest nesting of NonNull / List wrappers handed to createInputObject
MaxDepth == 3

-----------------------------------------------------------------------------
(* Values *)

Undefined == [k |-> "undefined"]
Absent == "<absent>"

Scalar(n) == [k |-> "Scalar", n |-> n]
ObjectType(n, oid) == [k |-> "Object", n |-> n, oid |-> oid]
InputObjectRef(n) == [k |-> "InputObject", n |-> n]
NonNull(t) == [k |-> "NonNull", ofType |-> t]
List(t) == [k |-> "List", ofType |-> t]

GraphQLID == Scalar("ID")
GraphQLString == Scalar("String")
GraphQLInt == Scalar("Int")
GraphQLFloat == Scalar("Float")
GraphQLBoolean == Scalar("Boolean")
DateTime == Scalar("DateTime")

\* new parentType.constructor(t): the wrapper of the same class around t
SameWrapper(parentType, t) == [k |-> parentType.k, ofType |-> t]

IsWrapper(t) == t.k \in {"List", "NonNull"}

\* class TypeSet extends Record({type, connection, inputObject, mutation})
TypeSet(type) ==
    [type |-> type, connection |-> Undefined,
     inputObject |-> Undefined, mutation |-> Undefined]

\* the connection type of a type: an object type that implements Connection
createConnection(typeSet) == [k |-> "Connection", of |-> typeSet.type]

\* createConnectionArguments(): the standard pagination arguments
createConnectionArguments == {"first", "last", "before", "after"}

\* type.getInterfaces exists on object types only
HasGetInterfaces(t) == t.k \in {"Object", "Connection"}

\* type.getInterfaces(): createType passes no interfaces, a connection type
\* implements Connection
getInterfaces(t) == IF t.k = "Connection" THEN {"Connection"} ELSE {}

PRIMITIVE_TYPE_MAP ==
    [id |-> GraphQLID, string |-> GraphQLString, integer |-> GraphQLInt,
     number |-> GraphQLFloat, boolean |-> GraphQLBoolean, datetime |-> DateTime]

-----------------------------------------------------------------------------
(* Inputs *)

CommonNames == {"User"}
TypeNames == {"A", "B", "clientMutationId"}
RefTypes == {"A", "B"}
ConnTargets == {"B"}

\* the field map of a built-in object type (supplied by the caller)
CommonFields(n) ==
    [id |-> [name |-> "id", type |-> NonNull(GraphQLID)],
     tags |-> [name |-> "tags", type |-> NonNull(List(GraphQLString))]]

FieldMetadata(name, type, isRequired, target, reverseName) ==
    [name |-> name, type |-> type, isRequired |-> isRequired,
     target |-> target, reverseName |-> reverseName]

IdField == FieldMetadata("id", "id", TRUE, Absent, Absent)

FieldDescs ==
    {FieldMetadata("f", "string", r, Absent, Absent) : r \in BOOLEAN}
    \cup {FieldMetadata("f", t, r, Absent, Absent) : t \in RefTypes, r \in BOOLEAN}
    \cup {FieldMetadata("f", "connection", r, t, rev) :
             r \in BOOLEAN, t \in ConnTargets, rev \in {"rev", Absent}}
    \cup {FieldMetadata("f", "connection", r, Absent, "rev") : r \in BOOLEAN}

FieldLists == {<<IdField>>} \cup {<<IdField, f>> : f \in FieldDescs}

TypeMetadata == [name : TypeNames, fields : FieldLists]

Names(md) == {md[j].name : j \in DOMAIN md}

\* type names are unique across the metadata
MetadataLists ==
    {md \in UNION {[1..n -> TypeMetadata] : n \in 0..MaxTypes} :
        \A a, b \in DOMAIN md : a # b => md[a].name # md[b].name}

-----------------------------------------------------------------------------
(* createField *)

\* variant of getTypeSet: a default TypeSet for an unknown name, as
\* typeSets.get(name, new TypeSet()) would give
getTypeSetDefault(reg, name) ==
    IF name \in DOMAIN reg THEN reg[name] ELSE TypeSet(Undefined)

\* (name) => typeSets.get(name)
getTypeSet(reg, name) == IF name \in DOMAIN reg THEN reg[name] ELSE Undefined

\* reading a property of undefined throws a TypeError
Throws(typeSet) == typeSet = Undefined

\* which branch of createField a field takes
FieldBranch(field) ==
    IF field.type = "connection" /\ field.target # Absent THEN "connection"
    ELSE IF field.type \in DOMAIN PRIMITIVE_TYPE_MAP THEN "primitive"
    ELSE "reference"

\* the name createField hands to getTypeSet, Absent when it makes no lookup
LookedUp(field) ==
    CASE FieldBranch(field) = "connection" -> field.target
      [] FieldBranch(field) = "primitive" -> Absent
      [] OTHER -> field.type

\* variant of createField: the reference branch reads .connection, not .type
createFieldRefConnection(field, reg) ==
    LET branch == FieldBranch(field)
        ts == getTypeSet(reg, LookedUp(field))
        bare == IF branch = "primitive"
                THEN PRIMITIVE_TYPE_MAP[field.type] ELSE ts.connection
    IN  IF branch # "primitive" /\ Throws(ts)
        THEN [ok |-> FALSE]
        ELSE [ok |-> TRUE,
              def |-> [name |-> field.name,
                       type |-> IF field.isRequired THEN NonNull(bare) ELSE bare,
                       args |-> IF branch = "connection"
                                THEN createConnectionArguments ELSE {},
                       resolve |-> IF branch = "connection" THEN "getAllByIndex"
                                   ELSE IF branch = "primitive" THEN "default"
                                   ELSE "getById",
                       reverseName |-> IF branch = "connection"
                                       THEN field.reverseName ELSE Absent]]

\* createField: [ok |-> FALSE] when it throws, or the field definition
createField(field, reg) ==
    LET branch == FieldBranch(field)
        ts == getTypeSet(reg, LookedUp(field))
        bare == CASE branch = "connection" -> ts.connection
                  [] branch = "primitive" -> PRIMITIVE_TYPE_MAP[field.type]
                  [] OTHER -> ts.type
        resolve == CASE branch = "connection" -> "getAllByIndex"
                     [] branch = "primitive" -> "default"
                     [] OTHER -> "getById"
    IN  IF branch # "primitive" /\ Throws(ts)
        THEN [ok |-> FALSE]
        ELSE [ok |-> TRUE,
              def |-> [name |-> field.name,
                       type |-> IF field.isRequired THEN NonNull(bare) ELSE bare,
                       args |-> IF branch = "connection"
                                THEN createConnectionArguments ELSE {},
                       resolve |-> resolve,
                       reverseName |-> IF branch = "connection"
                                       THEN field.reverseName ELSE Absent]]

-----------------------------------------------------------------------------
(* createType *)

\* variant of createType: fields given as an object, evaluated at the call
createTypeEager(typeMetadata, oid) ==
    [type |-> ObjectType(typeMetadata.name, oid), lazy |-> FALSE]

\* new GraphQLObjectType({name, fields: () => ...}): the field map is a thunk
createType(typeMetadata, oid) ==
    [type |-> ObjectType(typeMetadata.name, oid), lazy |-> TRUE]

\* the thunk of createType: every field through createField, in order;
\* stops at the first that throws.  looked: the names handed to getTypeSet.
RECURSIVE CompileFields(_, _, _, _)
CompileFields(fields, reg, acc, looked) ==
    IF fields = << >> THEN [ok |-> TRUE, map |-> acc, looked |-> looked]
    ELSE LET f == Head(fields)
             r == createField(f, reg)
             l == IF LookedUp(f) = Absent THEN looked ELSE looked \cup {LookedUp(f)}
         IN  IF ~r.ok THEN [ok |-> FALSE, map |-> acc, looked |-> l]
             ELSE CompileFields(Tail(fields), reg, (f.name :> r.def) @@ acc, l)

EvalFields(typeMetadata, reg) == CompileFields(typeMetadata.fields, reg, << >>, {})

LookupLog(looked, reg) == {[name |-> n, keys |-> DOMAIN reg] : n \in looked}

-----------------------------------------------------------------------------
(* createInputObject *)

\* the filter: name !== 'id' && (!getInterfaces || !includes(Connection))
InputKeeps(name, field) ==
    /\ name # "id"
    /\ \/ ~HasGetInterfaces(field.type)
       \/ "Connection" \notin getInterfaces(field.type)

\* the map: the input type of a kept field
InputFieldType(field) ==
    LET hasParent == IsWrapper(field.type)
        fieldType == IF hasParent THEN field.type.ofType ELSE field.type
    IN  IF fieldType.k \in {"InputObject", "Scalar"}
        THEN field.type
        ELSE IF hasParent
             THEN SameWrapper(field.type, GraphQLString)
             ELSE GraphQLString

\* createInputObject on an object type whose getFields() gave fieldMap
createInputObject(type, fieldMap) ==
    LET kept == {n \in DOMAIN fieldMap : InputKeeps(n, fieldMap[n])}
    IN  [k |-> "InputObject",
         n |-> "_" \o type.n \o "InputObject",
         fields |-> [n \in kept |-> InputFieldType(fieldMap[n])]]

-----------------------------------------------------------------------------
(* createMutation *)

\* an object literal: a later key of the same name replaces the earlier one
createMutation(type) ==
    [k |-> "Object",
     n |-> "_" \o type.n \o "Mutation",
     fields |-> (type.n :> type) @@ ("clientMutationId" :> GraphQLID),
     interfaces |-> {"Mutation"}]

-----------------------------------------------------------------------------
(* createSchema *)

Init ==
    /\ commonTypes \in SUBSET CommonNames
    /\ dbMetadata \in MetadataLists
    /\ pc = "seed"
    /\ err = "none"
    /\ i = 1
    /\ typeSets = << >>
    /\ mapped = << >>
    /\ fieldsOf = << >>
    /\ lookups = {}
    /\ started = {}
    /\ arg = Undefined
    /\ ret = Undefined

\* commonTypes.map(...): createConnection(typeSet, interfaces), then
\* createInputObject(typeSet) with no second argument, whose parameter
\* {Connection} cannot be destructured: a TypeError on the first built-in type
SeedCommonTypes ==
    /\ pc = "seed"
    /\ IF commonTypes = {}
       THEN /\ typeSets' = << >>
            /\ pc' = IF Len(dbMetadata) = 0 THEN "pass2" ELSE "pass1"
            /\ UNCHANGED <<err, started>>
       ELSE \E c \in commonTypes :
                /\ started' = started \cup
                       {[op |-> "createInputObject", name |-> c, keys |-> DOMAIN typeSets]}
                /\ pc' = "error"
                /\ err' = "TypeError: interfaces undefined"
                /\ UNCHANGED typeSets
    /\ UNCHANGED <<commonTypes, dbMetadata, i, mapped, fieldsOf, lookups, arg, ret>>

\* one iteration of dbMetadata.forEach
Pass1Step ==
    /\ pc = "pass1"
    /\ i <= Len(dbMetadata)
    /\ LET typeMetadata == dbMetadata[i]
           typeName == typeMetadata.name
           t == createType(typeMetadata, i)
           typeSet == TypeSet(t.type)
           connection == createConnection(typeSet)
           eager == EvalFields(typeMetadata, typeSets)
       IN  IF t.lazy
           THEN /\ typeSets' = (typeName :> [typeSet EXCEPT !.connection = connection])
                                   @@ typeSets
                /\ i' = i + 1
                /\ pc' = IF i = Len(dbMetadata) THEN "pass2" ELSE "pass1"
                /\ UNCHANGED <<err, fieldsOf, lookups>>
           ELSE /\ lookups' = lookups \cup LookupLog(eager.looked, typeSets)
                /\ IF eager.ok
                   THEN /\ fieldsOf' = (i :> eager.map) @@ fieldsOf
                        /\ typeSets' =
                               (typeName :> [typeSet EXCEPT !.connection = connection])
                                   @@ typeSets
                        /\ i' = i + 1
                        /\ pc' = IF i = Len(dbMetadata) THEN "pass2" ELSE "pass1"
                        /\ UNCHANGED err
                   ELSE /\ pc' = "error"
                        /\ err' = "TypeError: unresolved type"
                        /\ UNCHANGED <<fieldsOf, typeSets, i>>
    /\ UNCHANGED <<commonTypes, dbMetadata, mapped, started, arg, ret>>

\* one entry of typeSets.map(...): createInputObject(typeSet, interfaces), which
\* calls type.getFields() and so evaluates the thunk of a custom type against
\* the registry `typeSets` names at that moment, then createMutation
Pass2Step ==
    /\ pc = "pass2"
    /\ \E n \in DOMAIN typeSets \ DOMAIN mapped :
         LET typeSet == typeSets[n]
             type == typeSet.type
             custom == type.oid # 0
             cached == type.oid \in DOMAIN fieldsOf
             thunk == EvalFields(dbMetadata[type.oid], typeSets)
             fieldMap == IF ~custom THEN CommonFields(n)
                         ELSE IF cached THEN fieldsOf[type.oid] ELSE thunk.map
         IN  /\ lookups' = IF custom /\ ~cached
                           THEN lookups \cup LookupLog(thunk.looked, typeSets)
                           ELSE lookups
             /\ IF custom /\ ~cached /\ ~thunk.ok
                THEN /\ started' = started \cup
                         {[op |-> "createInputObject", name |-> n,
                           keys |-> DOMAIN typeSets]}
                     /\ pc' = "error"
                     /\ err' = "TypeError: unresolved type"
                     /\ UNCHANGED <<fieldsOf, mapped>>
                ELSE /\ started' = started \cup
                         {[op |-> o, name |-> n, keys |-> DOMAIN typeSets] :
                             o \in {"createInputObject", "createMutation"}}
                     /\ fieldsOf' = IF custom /\ ~cached
                                    THEN (type.oid :> thunk.map) @@ fieldsOf
                                    ELSE fieldsOf
                     /\ mapped' =
                            (n :> [typeSet EXCEPT
                                     !.inputObject = createInputObject(type, fieldMap),
                                     !.mutation = createMutation(type)]) @@ mapped
                     /\ UNCHANGED <<pc, err>>
    /\ UNCHANGED <<commonTypes, dbMetadata, i, typeSets, arg, ret>>

\* the assignment typeSets = typeSets.map(...), the root assembly and the return
ReturnSchema ==
    /\ pc = "pass2"
    /\ DOMAIN mapped = DOMAIN typeSets
    /\ typeSets' = mapped
    /\ pc' = "done"
    /\ UNCHANGED <<commonTypes, dbMetadata, err, i, mapped, fieldsOf, lookups,
                   started, arg, ret>>

Next == SeedCommonTypes \/ Pass1Step \/ Pass2Step \/ ReturnSchema

Spec == Init /\ [][Next]_vars

-----------------------------------------------------------------------------
(* createInputObject alone *)

RECURSIVE TypeExprs(_)
TypeExprs(d) ==
    IF d = 0
    THEN {GraphQLString, GraphQLID, InputObjectRef("_AInputObject"),
          ObjectType("A", 1), createConnection(TypeSet(ObjectType("A", 1)))}
    ELSE LET inner == TypeExprs(d - 1)
         IN  inner \cup {NonNull(t) : t \in {u \in inner : u.k # "NonNull"}}
                   \cup {List(t) : t \in inner}

InitInput ==
    /\ commonTypes = {}
    /\ dbMetadata = << >>
    /\ pc = "call"
    /\ err = "none"
    /\ i = 1
    /\ typeSets = << >>
    /\ mapped = << >>
    /\ fieldsOf = << >>
    /\ lookups = {}
    /\ started = {}
    /\ \E t \in TypeExprs(MaxDepth) :
           arg = [type |-> ObjectType("T", 1),
                  fields |-> [id |-> [name |-> "id", type |-> NonNull(GraphQLID)],
                              f |-> [name |-> "f", type |-> t]]]
    /\ ret = Undefined

CallCreateInputObject ==
    /\ pc = "call"
    /\ ret' = createInputObject(arg.type, arg.fields)
    /\ pc' = "ret"
    /\ UNCHANGED <<commonTypes, dbMetadata, err, i, typeSets, mapped, fieldsOf,
                   lookups, started, arg>>

NextInput == CallCreateInputObject

SpecInput == InitInput /\ [][NextInput]_vars

-----------------------------------------------------------------------------
(* Vocabulary of the properties *)

Registered == commonTypes \cup Names(dbMetadata)

FieldSet(typeMetadata) ==
    {typeMetadata.fields[x] : x \in DOMAIN typeMetadata.fields}

\* the field names a type the registry will not hold after pass 1
Dangling(field) ==
    IF field.type = "connection" /\ field.target # Absent
    THEN field.target \notin Registered
    ELSE field.type \notin DOMAIN PRIMITIVE_TYPE_MAP /\ field.type \notin Registered

HasDangling == \E j \in DOMAIN dbMetadata : \E f \in FieldSet(dbMetadata[j]) : Dangling(f)

\* a connection field with its target and its reverseName
CompleteConnection(field) ==
    field.type = "connection" => field.target # Absent /\ field.reverseName # Absent

ValidMetadata ==
    /\ ~HasDangling
    /\ \A j \in DOMAIN dbMetadata : \A f \in FieldSet(dbMetadata[j]) : CompleteConnection(f)

\* type a of the metadata has a field whose type is type b of the metadata
RefersTo(a, b) ==
    \E f \in FieldSet(dbMetadata[a]) : f.type = dbMetadata[b].name

RefFieldsTo(a, b) ==
    {f \in FieldSet(dbMetadata[a]) : f.type = dbMetadata[b].name}

Mutual(a, b) == RefersTo(a, b) /\ RefersTo(b, a)

RECURSIVE Underlying(_)
Underlying(t) == IF IsWrapper(t) THEN Underlying(t.ofType) ELSE t

ListTyped(t) == t.k = "List" \/ (t.k = "NonNull" /\ t.ofType.k = "List")

Terminated == ~ENABLED Next

-----------------------------------------------------------------------------
(* Properties of createSchema (Spec) *)

C2_InputObjectsCarryNoConnections ==
    \A n \in DOMAIN mapped :
        LET type == mapped[n].type
        IN  type.oid # 0 =>
                \A f \in FieldSet(dbMetadata[type.oid]) :
                    (f.type = "connection" /\ f.target # Absent)
                        => f.name \notin DOMAIN mapped[n].inputObject.fields

\* C3: when some field names a type that is neither primitive nor registered
\* after pass 1, no schema is returned and the run can only end in an error;
\* a returned schema has every custom field map evaluated, every field typed.
C3_AllOrNothing ==
    /\ HasDangling => pc # "done"
    /\ (HasDangling /\ Terminated) => pc = "error"
    /\ pc = "done" =>
           \A j \in DOMAIN dbMetadata :
               /\ j \in DOMAIN fieldsOf
               /\ \A f \in FieldSet(dbMetadata[j]) :
                      Underlying(fieldsOf[j][f.name].type) # Undefined

\* C3 witness: the run aborted on an unregistered type after another type's
\* input object and mutation had already been built.
C3_Witness ==
    /\ HasDangling
    /\ pc = "error"
    /\ err = "TypeError: unresolved type"
    /\ mapped # << >>

\* C4: a schema is returned only if every connection field has its target and
\* its reverseName; no compiled connection field is left to look up an
\* undefined reverseName at request time.
C4_IncompleteConnectionFails ==
    pc = "done" =>
        /\ \A j \in DOMAIN dbMetadata :
               \A f \in FieldSet(dbMetadata[j]) : CompleteConnection(f)
        /\ \A j \in DOMAIN fieldsOf : \A n \in DOMAIN fieldsOf[j] :
               fieldsOf[j][n].resolve = "getAllByIndex"
                   => fieldsOf[j][n].reverseName # Absent

\* C5: with one or more built-in types and valid metadata createSchema does
\* not fail, and the returned registry has all four members of every entry.
C5_CommonTypesComplete ==
    (commonTypes # {} /\ ValidMetadata) =>
        /\ pc # "error"
        /\ pc = "done" =>
               /\ DOMAIN typeSets = Registered
               /\ \A n \in DOMAIN typeSets :
                      /\ typeSets[n].type # Undefined
                      /\ typeSets[n].connection # Undefined
                      /\ typeSets[n].inputObject # Undefined
                      /\ typeSets[n].mutation # Undefined

\* C6: every mutation type has exactly two fields, clientMutationId of the ID
\* scalar and one named after the object type and of that type, and is named
\* _<TypeName>Mutation.
C6_MutationHasTwoFields ==
    \A n \in DOMAIN mapped :
        LET m == mapped[n].mutation
        IN  /\ Cardinality(DOMAIN m.fields) = 2
            /\ m.fields["clientMutationId"] = GraphQLID
            /\ m.fields[n] = mapped[n].type
            /\ m.n = "_" \o n \o "Mutation"

\* C8: every createInputObject / createMutation call starts with all pass-1
\* entries, built-in and custom, in the registry.
C8_TwoPhaseBarrier ==
    \A s \in started : s.keys = Registered

\* C9: no lookup and no field-map evaluation happens while the forEach runs;
\* every getTypeSet call sees a registry holding every built-in type and
\* every type of the metadata.
C9_LazyFieldMaps ==
    /\ pc = "pass1" => (lookups = {} /\ fieldsOf = << >>)
    /\ (lookups # {} \/ fieldsOf # << >>) => i > Len(dbMetadata)
    /\ \A l \in lookups : l.keys = Registered

\* C9 witness: a type that refers to a type later in the metadata has had its
\* field map evaluated, with lookups made.
C9_Witness ==
    /\ lookups # {}
    /\ \E a, b \in DOMAIN dbMetadata :
           a < b /\ RefersTo(a, b) /\ a \in DOMAIN fieldsOf

-----------------------------------------------------------------------------
(* Properties of createInputObject (SpecInput) *)

\* C7: a field whose underlying type is an object type becomes a field of
\* underlying type String, and stays list-typed when it was list-typed (a
\* list, or a non-null list).
C7_ReferenceBecomesString ==
    (pc = "ret" /\ Underlying(arg.fields.f.type).k = "Object") =>
        /\ "f" \in DOMAIN ret.fields
        /\ Underlying(ret.fields.f) = GraphQLString
        /\ ListTyped(arg.fields.f.type) => ListTyped(ret.fields.f)

\* C10: a kept field whose underlying type is a scalar or an input object
\* keeps its type unchanged, whatever the nesting of its wrappers.
C10_InputCompatibleTypeKept ==
    (/\ pc = "ret"
     /\ "f" \in DOMAIN ret.fields
     /\ Underlying(arg.fields.f.type).k \in {"Scalar", "InputObject"}) =>
        ret.fields.f = arg.fields.f.type

====
